---- MODULE Spec2Model ----
(***************************************************************************)
(* buildThread (src/unnamed/part_002): threading of a flat list of         *)
(* annotations into a tree, then the visibility, expansion, pruning,       *)
(* sorting and counting passes.  UserMenu (src/unnamed/part_000): the menu *)
(* items the component renders.                                            *)
(*                                                                         *)
(* Values.  Thread ids are non-empty strings that do not look like array   *)
(* indexes; the model writes them 1, 2, 3 (ordered as the strings are).    *)
(* 0 stands for JavaScript's undefined in an id, parent or annotation      *)
(* slot.  An object is a function from its keys to values; a key holding   *)
(* undefined in the source is a key absent from the function where noted.  *)
(* The annotation slot of a thread holds a reference to an element of the  *)
(* input array: the model writes the element's index.  The children array  *)
(* of a thread holds references to thread objects: the model writes their  *)
(* keys in `threads` while the map is being built (after the indexing      *)
(* pass no key is ever rebound to another object), and nested copies once  *)
(* threadAnnotations has returned (nothing writes to a thread object after *)
(* that; every later pass copies).  Booleans record truthiness.            *)
(***************************************************************************)
EXTENDS Integers, Sequences, FiniteSets, TLC

VARIABLES
  annotations,          \* argument 1 of buildThread: the caller's array
  optsArg,              \* argument 2 of buildThread: the caller's options object
  DEFAULT_THREAD_STATE, \* module-level record, part_002:4
  defaultOpts,          \* module-level record, part_002:227
  pc,                   \* where the current call is
  opts,                 \* buildThread's local `opts` after line 281
  threads,              \* threadAnnotations' local map id -> thread
  keys,                 \* Object.keys(threads): the keys in insertion order
  next,                 \* index of the next element of the second forEach
  stack,                \* the active setParentID calls, innermost last
  root,                 \* the value threadAnnotations returns
  thread,               \* the value buildThread returns
  calls,                \* number of calls that have returned
  first,                \* arguments and result of the first call that returned
  limit,                \* what is left of the bound on the size of the arguments
  props,                \* the props UserMenu is rendered with (part_000:15)
  menu                  \* the menu items UserMenu rendered, in order

vars == <<annotations, optsArg, DEFAULT_THREAD_STATE, defaultOpts, pc, opts,
          threads, keys, next, stack, root, thread, calls, first, limit,
          props, menu>>

---------------------------------------------------------------------------
(* Bounds of the model *)

\* Total size of the arguments of one call: see Weight.
MaxWeight == 3
\* Total size of the arguments of all the calls of SpecCalls together.
MaxCallWeight == 2
\* Number of calls SpecCalls makes.
MaxCalls == 3

\* Number of annotations in a list of SpecOrders.
MaxReplies == 2

\* Number of annotations in a list of SpecDrafts.
MaxListLen == 3

IDs == {1, 2, 3}
Undefined == 0

---------------------------------------------------------------------------
(* Sequences and objects *)

Last(s) == s[Len(s)]
Front(s) == SubSeq(s, 1, Len(s) - 1)
Range(s) == {s[j] : j \in 1..Len(s)}
Max(a, b) == IF a > b THEN a ELSE b

RECURSIVE SeqsOfLen(_, _)
SeqsOfLen(S, n) ==
  IF n = 0 THEN {<<>>}
  ELSE {<<x>> \o s : x \in S, s \in SeqsOfLen(S, n - 1)}

RECURSIVE SetToSeq(_)
\* The elements of a set of numbers in ascending order.
SetToSeq(S) ==
  IF S = {} THEN <<>>
  ELSE LET m == CHOOSE x \in S : \A y \in S : x <= y
       IN <<m>> \o SetToSeq(S \ {m})

EmptyObject == [k \in {} |-> Undefined]

\* Object.assign({}, a, b): the keys of both, b's value where both have one.
ObjectAssign(a, b) ==
  [k \in DOMAIN a \cup DOMAIN b |-> IF k \in DOMAIN b THEN b[k] ELSE a[k]]

\* obj[k], undefined when obj has no such key.
Prop(obj, k) == IF k \in DOMAIN obj THEN obj[k] ELSE Undefined

Has(obj, k) == k \in DOMAIN obj

---------------------------------------------------------------------------
(* The arguments a caller can pass *)

\* An annotation: id (0: absent), $tag (0: absent), references (hasReferences
\* FALSE: the key is absent), created.
Annotation(i, t, h, r, c) ==
  [id |-> i, tag |-> t, hasReferences |-> h, references |-> r, created |-> c]

AnnWeight(a) ==
  Max(1, Len(a.references))
    + (IF a.hasReferences /\ a.references = <<>> THEN 2 ELSE 0)
    + (IF a.id = Undefined THEN 2 ELSE 0)
    + (a.created - 1)

RECURSIVE SumWeights(_)
SumWeights(as) ==
  IF as = <<>> THEN 0 ELSE AnnWeight(as[1]) + SumWeights(SubSeq(as, 2, Len(as)))

\* The largest weight an argument can have.
TopWeight == Max(MaxWeight, MaxCallWeight)

\* The annotations of each weight.
AnnotationsOfWeight ==
  [w \in 1..TopWeight |->
     {a \in {Annotation(i, 0, FALSE, <<>>, 1) : i \in IDs}
            \cup UNION {{Annotation(IF t THEN 0 ELSE i, IF t THEN i ELSE 0, TRUE, r, c) :
                           i \in IDs, t \in BOOLEAN, r \in SeqsOfLen(IDs, n), c \in {1, 2}} :
                        n \in 0..w} :
        AnnWeight(a) = w}]

\* The option keys and, for each, the values the model passes.  A predicate
\* (filterFn over annotations, threadFilterFn over threads) is the set of ids
\* it accepts; a comparator is named by the field it compares with <.
OptionKeys ==
  {"selected", "forceVisible", "filterFn", "threadFilterFn", "expanded",
   "highlighted", "sortCompareFn", "replySortCompareFn"}

OptionValues(k) ==
  CASE k \in {"selected", "highlighted"} ->
         {SetToSeq(S) : S \in SUBSET IDs \ {{}}}
    [] k = "forceVisible" -> {SetToSeq(S) : S \in SUBSET IDs}
    [] k \in {"filterFn", "threadFilterFn"} -> SUBSET IDs
    [] k = "expanded" ->
         UNION {[D -> BOOLEAN] : D \in SUBSET IDs \ {{}}}
    [] k = "sortCompareFn" -> {"created"}
    [] k = "replySortCompareFn" -> {"id"}

OptionWeight(k, v) ==
  CASE k \in {"selected", "highlighted"} -> Len(v)
    [] k = "forceVisible" -> Max(1, Len(v))
    [] k = "filterFn" -> Max(1, Cardinality(IDs \ v))
    [] k = "threadFilterFn" -> 1 + Cardinality(IDs \ v)
    [] k = "expanded" -> Cardinality(DOMAIN v)
    [] OTHER -> 1

RECURSIVE SumOptionWeights(_, _)
SumOptionWeights(o, ks) ==
  IF ks = {} THEN 0
  ELSE LET k == CHOOSE x \in ks : TRUE
       IN OptionWeight(k, o[k]) + SumOptionWeights(o, ks \ {k})

Weight(as, o) == SumWeights(as) + SumOptionWeights(o, DOMAIN o)

\* The values of each option key, by weight.
OptionsOfWeight ==
  [k \in OptionKeys |->
     [w \in 1..TopWeight |-> {v \in OptionValues(k) : OptionWeight(k, v) = w}]]

---------------------------------------------------------------------------
(* Module-level records *)

\* part_002:4-38.  The children key holds a shared empty array, which every
\* thread made from this record replaces by an array of its own.
InitialThreadState ==
  [id |-> Undefined, annotation |-> Undefined, parent |-> Undefined,
   collapsed |-> FALSE, visible |-> TRUE, children |-> <<>>,
   totalChildren |-> 0, highlightState |-> "undefined"]

\* part_002:227-265.  forceVisible, filterFn and threadFilterFn hold undefined:
\* the keys are absent here.  The comparators are a.id < b.id and
\* a.created < b.created.
InitialDefaultOpts ==
  [selected |-> <<>>, expanded |-> EmptyObject, highlighted |-> <<>>,
   sortCompareFn |-> "id", replySortCompareFn |-> "created"]

\* part_002:46-48
id(annotation) ==
  IF annotation.id # Undefined THEN annotation.id ELSE annotation.tag

---------------------------------------------------------------------------
(* The caller: building the arguments, calling, and calling again *)

Init ==
  /\ annotations = <<>>
  /\ optsArg = EmptyObject
  /\ DEFAULT_THREAD_STATE = InitialThreadState
  /\ defaultOpts = InitialDefaultOpts
  /\ pc = "args"
  /\ opts = EmptyObject
  /\ threads = EmptyObject
  /\ keys = <<>>
  /\ next = 1
  /\ stack = <<>>
  /\ root = EmptyObject
  /\ thread = EmptyObject
  /\ calls = 0
  /\ first = <<>>
  /\ limit = MaxWeight
  /\ props = EmptyObject
  /\ menu = <<>>

InitCalls ==
  /\ annotations = <<>>
  /\ optsArg = EmptyObject
  /\ DEFAULT_THREAD_STATE = InitialThreadState
  /\ defaultOpts = InitialDefaultOpts
  /\ pc = "args"
  /\ opts = EmptyObject
  /\ threads = EmptyObject
  /\ keys = <<>>
  /\ next = 1
  /\ stack = <<>>
  /\ root = EmptyObject
  /\ thread = EmptyObject
  /\ calls = 0
  /\ first = <<>>
  /\ limit = MaxCallWeight
  /\ props = EmptyObject
  /\ menu = <<>>

\* The caller appends an annotation to the array it will pass.
AddAnnotation ==
  /\ pc = "args"
  /\ LET left == limit - Weight(annotations, optsArg)
     IN \E w \in 1..left :
          \E a \in AnnotationsOfWeight[w] :
            annotations' = Append(annotations, a)
  /\ UNCHANGED <<props, menu>>
  /\ UNCHANGED <<optsArg, DEFAULT_THREAD_STATE, defaultOpts, pc, opts, threads,
                 keys, next, stack, root, thread, calls, first, limit>>

\* The caller sets one key of the options object it will pass.
SetOption ==
  /\ pc = "args"
  /\ LET left == limit - Weight(annotations, optsArg)
     IN \E k \in OptionKeys \ DOMAIN optsArg :
          \E w \in 1..left :
            \E v \in OptionsOfWeight[k][w] :
              optsArg' = ObjectAssign(optsArg, [x \in {k} |-> v])
  /\ UNCHANGED <<props, menu>>
  /\ UNCHANGED <<annotations, DEFAULT_THREAD_STATE, defaultOpts, pc, opts,
                 threads, keys, next, stack, root, thread, calls, first, limit>>

\* Annotations of a list that mixes saved annotations (with an id, replies or
\* not) and new ones, which have a $tag and no id yet.
DraftAnnotations ==
  {Annotation(Undefined, t, FALSE, <<>>, 1) : t \in IDs}
    \cup {Annotation(i, Undefined, FALSE, <<>>, 1) : i \in IDs}
    \cup {Annotation(i, Undefined, TRUE, <<x>>, 1) : i, x \in IDs}

\* The caller appends a saved or a new annotation to the array it will pass,
\* up to MaxListLen of them.
AddDraft ==
  /\ pc = "args"
  /\ Len(annotations) < MaxListLen
  /\ \E a \in DraftAnnotations : annotations' = Append(annotations, a)
  /\ UNCHANGED <<props, menu>>
  /\ UNCHANGED <<optsArg, DEFAULT_THREAD_STATE, defaultOpts, pc, opts, threads,
                 keys, next, stack, root, thread, calls, first, limit>>

\* Object.assign(defaultOpts, opts) in place of line 281: the module-level
\* record is the target and takes the caller's options.
DefaultOptsAssignedInPlace(defaults, merged) == merged

\* part_002:281.  The target of Object.assign is a fresh object: defaultOpts
\* is a source only and keeps its value.
DefaultOptsAfterAssign(defaults, merged) == defaults

\* buildThread(annotations, optsArg) is called; line 281 merges the options.
buildThread ==
  /\ pc = "args"
  /\ opts' = ObjectAssign(defaultOpts, optsArg)
  /\ defaultOpts' = DefaultOptsAfterAssign(defaultOpts, opts')
  /\ pc' = "index"
  /\ UNCHANGED <<props, menu>>
  /\ UNCHANGED <<annotations, optsArg, DEFAULT_THREAD_STATE, threads, keys,
                 next, stack, root, thread, calls, first, limit>>

\* The call has returned; its locals are gone, and the caller starts to
\* prepare another call, with what is left of the bound for its arguments.
Return ==
  /\ pc = "done"
  /\ calls + 1 < MaxCalls
  /\ calls' = calls + 1
  /\ first' = IF calls = 0
              THEN [annotations |-> annotations, opts |-> optsArg,
                    result |-> thread]
              ELSE first
  /\ annotations' = <<>>
  /\ optsArg' = EmptyObject
  /\ pc' = "args"
  /\ opts' = EmptyObject
  /\ threads' = EmptyObject
  /\ keys' = <<>>
  /\ next' = 1
  /\ stack' = <<>>
  /\ root' = EmptyObject
  /\ thread' = EmptyObject
  /\ limit' = limit - Weight(annotations, optsArg)
  /\ UNCHANGED <<props, menu>>
  /\ UNCHANGED <<DEFAULT_THREAD_STATE, defaultOpts>>

\* The caller passes the arguments of its first call once more; they do not
\* count against the bound again.
CallAgain ==
  /\ pc = "args"
  /\ calls >= 1
  /\ annotations = <<>>
  /\ optsArg = EmptyObject
  /\ Weight(first.annotations, first.opts) > 0
  /\ annotations' = first.annotations
  /\ optsArg' = first.opts
  /\ limit' = limit + Weight(first.annotations, first.opts)
  /\ UNCHANGED <<props, menu>>
  /\ UNCHANGED <<DEFAULT_THREAD_STATE, defaultOpts, pc, opts, threads, keys,
                 next, stack, root, thread, calls, first>>

\* The ids a references list of SpecOrders can name: those of IDs and one that
\* no annotation has.
ReferenceIDs == IDs \cup {4}

\* Annotations with an id and up to two references.
ReplyAnnotations ==
  {Annotation(i, Undefined, FALSE, <<>>, 1) : i \in IDs}
    \cup {Annotation(i, Undefined, TRUE, r, 1) :
            i \in IDs, r \in SeqsOfLen(ReferenceIDs, 1) \cup SeqsOfLen(ReferenceIDs, 2)}

\* The caller appends an annotation to the array of its first call, up to
\* MaxReplies of them.
AddReply ==
  /\ pc = "args"
  /\ calls = 0
  /\ Len(annotations) < MaxReplies
  /\ \E a \in ReplyAnnotations : annotations' = Append(annotations, a)
  /\ UNCHANGED <<props, menu>>
  /\ UNCHANGED <<optsArg, DEFAULT_THREAD_STATE, defaultOpts, pc, opts, threads,
                 keys, next, stack, root, thread, calls, first, limit>>

\* The orderings of the array s.
Orderings(s) ==
  {[j \in 1..Len(s) |-> s[f[j]]] :
     f \in {g \in [1..Len(s) -> 1..Len(s)] :
              \A j, k \in 1..Len(s) : g[j] = g[k] => j = k}}

\* The caller passes the annotations of its first call again, in any order.
CallReordered ==
  /\ pc = "args"
  /\ calls = 1
  /\ annotations = <<>>
  /\ first.annotations # <<>>
  /\ annotations' \in Orderings(first.annotations)
  /\ optsArg' = first.opts
  /\ UNCHANGED <<props, menu>>
  /\ UNCHANGED <<DEFAULT_THREAD_STATE, defaultOpts, pc, opts, threads, keys,
                 next, stack, root, thread, calls, first, limit>>

---------------------------------------------------------------------------
(* threadAnnotations, part_002:100-141 *)

\* Object.assign(DEFAULT_THREAD_STATE, ...) in place of lines 106 and 67: the
\* module-level record is the target and becomes the thread made.
DefaultThreadStateAssignedInPlace(defaults, made) == made

\* part_002:106-110 and 67-70.  The target of Object.assign is a fresh
\* object: DEFAULT_THREAD_STATE is a source only and keeps its value.
DefaultThreadStateAfterAssign(defaults, made) == defaults

\* part_002:106-110: the thread of the annotations[j].
NewThread(j) ==
  ObjectAssign(DEFAULT_THREAD_STATE,
               [id |-> id(annotations[j]), annotation |-> j, children |-> <<>>])

\* part_002:67-70: the placeholder of a missing parent.
Placeholder(parentID) ==
  ObjectAssign(DEFAULT_THREAD_STATE, [id |-> parentID, children |-> <<>>])

RECURSIVE IndexFrom(_, _, _)
\* part_002:105-111, from element j on: <<threads, keys>> after the loop.
IndexFrom(j, ts, ks) ==
  IF j > Len(annotations) THEN <<ts, ks>>
  ELSE LET t == NewThread(j)
       IN IndexFrom(j + 1,
                    ObjectAssign(ts, [x \in {t.id} |-> t]),
                    IF t.id \in DOMAIN ts THEN ks ELSE Append(ks, t.id))

\* part_002:102-111
IndexAnnotations ==
  /\ pc = "index"
  /\ LET r == IndexFrom(1, EmptyObject, <<>>)
     IN /\ threads' = r[1]
        /\ keys' = r[2]
  /\ DEFAULT_THREAD_STATE' =
       IF annotations = <<>> THEN DEFAULT_THREAD_STATE
       ELSE DefaultThreadStateAfterAssign(DEFAULT_THREAD_STATE,
                                          NewThread(Len(annotations)))
  /\ next' = 1
  /\ pc' = "link"
  /\ UNCHANGED <<props, menu>>
  /\ UNCHANGED <<annotations, optsArg, defaultOpts, opts, stack, root, thread,
                 calls, first, limit>>

\* part_002:114-119: one turn of the second forEach.
LinkNext ==
  /\ pc = "link"
  /\ stack = <<>>
  /\ next <= Len(annotations)
  /\ next' = next + 1
  /\ stack' = IF annotations[next].hasReferences
              THEN <<[id |-> id(annotations[next]),
                      parents |-> annotations[next].references,
                      at |-> "entry", grandParentID |-> Undefined, walked |-> 0]>>
              ELSE <<>>
  /\ UNCHANGED <<props, menu>>
  /\ UNCHANGED <<annotations, optsArg, DEFAULT_THREAD_STATE, defaultOpts, pc,
                 opts, threads, keys, root, thread, calls, first, limit>>

---------------------------------------------------------------------------
(* setParentID, part_002:57-86.  A frame of `stack` is one active call: its *)
(* id and parents arguments, where it is, and its local grandParentID.      *)

Top == stack[Len(stack)]
ParentID(frame) == Last(frame.parents)

\* Line 58 without its test of threads[id].parent.
ParentAssigned_OnlyEmptyParents(tid, parents) == Len(parents) = 0

\* part_002:58: the condition of the early return.
ParentAssigned(tid, parents) ==
  threads[tid].parent # Undefined \/ Len(parents) = 0

\* part_002:58-61
SetParentIDReturn ==
  /\ stack # <<>>
  /\ Top.at = "entry"
  /\ ParentAssigned(Top.id, Top.parents)
  /\ stack' = Front(stack)
  /\ UNCHANGED <<props, menu>>
  /\ UNCHANGED <<annotations, optsArg, DEFAULT_THREAD_STATE, defaultOpts, pc,
                 opts, threads, keys, next, root, thread, calls, first, limit>>

\* Line 71 passing no parents: the placeholder is never linked upward.
ParentsOfParent_None(parents) == <<>>

\* part_002:71: the parents passed to the recursive call.
ParentsOfParent(parents) == Front(parents)

\* part_002:63-72: the parent is missing; make its placeholder and link it.
SetParentIDPlaceholder ==
  /\ stack # <<>>
  /\ Top.at = "entry"
  /\ ~ParentAssigned(Top.id, Top.parents)
  /\ ~Has(threads, ParentID(Top))
  /\ threads' = ObjectAssign(threads,
                   [x \in {ParentID(Top)} |-> Placeholder(ParentID(Top))])
  /\ keys' = Append(keys, ParentID(Top))
  /\ DEFAULT_THREAD_STATE' =
       DefaultThreadStateAfterAssign(DEFAULT_THREAD_STATE,
                                     Placeholder(ParentID(Top)))
  /\ stack' = Front(stack)
              \o <<[Top EXCEPT !.at = "resume"],
                   [id |-> ParentID(Top),
                    parents |-> ParentsOfParent(Top.parents),
                    at |-> "entry", grandParentID |-> Undefined, walked |-> 0]>>
  /\ UNCHANGED <<props, menu>>
  /\ UNCHANGED <<annotations, optsArg, defaultOpts, pc, opts, next, root,
                 thread, calls, first, limit>>

\* part_002:74: the walk starts, at once when the parent exists and after the
\* recursive call when it had to be made.
SetParentIDStartWalk ==
  /\ stack # <<>>
  /\ IF Top.at = "entry"
     THEN ~ParentAssigned(Top.id, Top.parents) /\ Has(threads, ParentID(Top))
     ELSE Top.at = "resume"
  /\ stack' = Front(stack)
              \o <<[Top EXCEPT !.at = "walk",
                               !.grandParentID = threads[ParentID(Top)].parent]>>
  /\ UNCHANGED <<props, menu>>
  /\ UNCHANGED <<annotations, optsArg, DEFAULT_THREAD_STATE, defaultOpts, pc,
                 opts, threads, keys, next, root, thread, calls, first, limit>>

\* Lines 75-82 without the test of line 76: the walk only runs to the top.
IsLoop_Never(grandParentID, tid) == FALSE

\* part_002:76: the test that finds a loop.
IsLoop(grandParentID, tid) == grandParentID = tid

\* part_002:75-78: a loop in the references; return without linking.
SetParentIDAbort ==
  /\ stack # <<>>
  /\ Top.at = "walk"
  /\ Top.grandParentID # Undefined
  /\ IsLoop(Top.grandParentID, Top.id)
  /\ stack' = Front(stack)
  /\ UNCHANGED <<props, menu>>
  /\ UNCHANGED <<annotations, optsArg, DEFAULT_THREAD_STATE, defaultOpts, pc,
                 opts, threads, keys, next, root, thread, calls, first, limit>>

\* part_002:75-81: one turn of the while loop that goes on.  `walked` counts
\* the turns this call of setParentID has made.  Each turn moves one parent
\* link up, so a walk that has made more turns than there are threads has
\* been at some thread twice and repeats from there for ever: the model
\* stops counting, and following it, there.
SetParentIDWalk ==
  /\ stack # <<>>
  /\ Top.at = "walk"
  /\ Top.grandParentID # Undefined
  /\ ~IsLoop(Top.grandParentID, Top.id)
  /\ Top.walked <= Cardinality(DOMAIN threads)
  /\ stack' = Front(stack)
              \o <<[Top EXCEPT !.grandParentID = threads[Top.grandParentID].parent,
                               !.walked = @ + 1]>>
  /\ UNCHANGED <<props, menu>>
  /\ UNCHANGED <<annotations, optsArg, DEFAULT_THREAD_STATE, defaultOpts, pc,
                 opts, threads, keys, next, root, thread, calls, first, limit>>

\* part_002:84-85
SetParentIDLink ==
  /\ stack # <<>>
  /\ Top.at = "walk"
  /\ Top.grandParentID = Undefined
  /\ LET linked == [threads EXCEPT ![Top.id].parent = ParentID(Top)]
     IN threads' = [linked EXCEPT ![ParentID(Top)].children = Append(@, Top.id)]
  /\ stack' = Front(stack)
  /\ UNCHANGED <<props, menu>>
  /\ UNCHANGED <<annotations, optsArg, DEFAULT_THREAD_STATE, defaultOpts, pc,
                 opts, keys, next, root, thread, calls, first, limit>>

---------------------------------------------------------------------------
(* The end of threadAnnotations, part_002:121-141 *)

RECURSIVE Tree(_, _)
\* The thread object ts[tid] with the thread objects its children array
\* refers to, as a value.
Tree(ts, tid) ==
  ObjectAssign(ts[tid],
    [children |-> [j \in 1..Len(ts[tid].children) |->
                     Tree(ts, ts[tid].children[j])]])

\* part_002:125: the test for a top-level thread.
IsTopLevel(t) == t.parent = Undefined

\* part_002:124-130: the threads after the loop.
WithRootsCollapsed(ts) ==
  [k \in DOMAIN ts |->
     IF IsTopLevel(ts[k]) THEN [ts[k] EXCEPT !.collapsed = TRUE] ELSE ts[k]]

\* part_002:123-130: the ids pushed to `roots`, in the order of Object.keys.
RootIDs(ts, ks) == SelectSeq(ks, LAMBDA k : IsTopLevel(ts[k]))

\* part_002:121-141
CollectRoots ==
  /\ pc = "link"
  /\ stack = <<>>
  /\ next > Len(annotations)
  /\ threads' = WithRootsCollapsed(threads)
  /\ LET roots == RootIDs(threads, keys)
     IN root' = [annotation |-> Undefined,
                 children |-> [j \in 1..Len(roots) |-> Tree(threads', roots[j])],
                 visible |-> TRUE,
                 collapsed |-> FALSE,
                 totalChildren |-> Len(roots)]
  /\ pc' = "build"
  /\ UNCHANGED <<props, menu>>
  /\ UNCHANGED <<annotations, optsArg, DEFAULT_THREAD_STATE, defaultOpts, opts,
                 keys, next, stack, thread, calls, first, limit>>

---------------------------------------------------------------------------
(* The passes of buildThread, part_002:285-361.  A thread here is a value:  *)
(* an object whose children key holds the sequence of its child threads.    *)

\* Lines 288-296 with line 289 testing only that forceVisible was given: every
\* annotation is then shown, whatever filterFn says of it.
shouldShowThread_ForceAll(o, annotation) ==
  IF Has(o, "forceVisible")
  THEN TRUE
  ELSE IF Has(o, "filterFn") /\ ~(id(annotation) \in o.filterFn)
  THEN FALSE
  ELSE TRUE

\* part_002:288-296, with `o` the merged options.
shouldShowThread(o, annotation) ==
  IF Has(o, "forceVisible") /\ id(annotation) \in Range(o.forceVisible)
  THEN TRUE
  ELSE IF Has(o, "filterFn") /\ ~(id(annotation) \in o.filterFn)
  THEN FALSE
  ELSE TRUE

\* String.prototype.toString of an id, which is a string.
toString(tid) == tid

\* Lines 300-306 left out: the selection removes nothing.
SelectThreads_KeepAll(o, t) == t

\* part_002:300-306
SelectThreads(o, t) ==
  IF Len(o.selected) > 0
  THEN ObjectAssign(t,
         [children |-> SelectSeq(t.children,
                         LAMBDA child : toString(child.id) \in Range(o.selected))])
  ELSE t

\* part_002:310-323: the function mapped over the threads by the first pass.
VisibilityOf(o, as, t) ==
  LET highlightState ==
        IF Len(o.highlighted) > 0
        THEN IF t.annotation # Undefined /\ Prop(t, "id") \in Range(o.highlighted)
             THEN "highlight" ELSE "dim"
        ELSE "undefined"
  IN ObjectAssign(t,
       [highlightState |-> highlightState,
        visible |-> /\ t.visible
                    /\ t.annotation # Undefined
                    /\ shouldShowThread(o, as[t.annotation])])

RECURSIVE MapVisibility(_, _, _)
\* part_002:150-156 applied as in 309-324.
MapVisibility(o, as, t) ==
  ObjectAssign(VisibilityOf(o, as, t),
    [children |-> [j \in 1..Len(t.children) |->
                     MapVisibility(o, as, t.children[j])]])

RECURSIVE hasVisibleChildren(_)
\* part_002:218-222
hasVisibleChildren(t) ==
  \E j \in 1..Len(t.children) :
    t.children[j].visible \/ hasVisibleChildren(t.children[j])

\* Lines 329-341 with the two rules in the other order: a thread with a
\* visible reply is expanded whatever `expanded` says of it.
ExpansionOf_FilterFirst(o, t) ==
  IF Has(o, "filterFn") /\ hasVisibleChildren(t)
  THEN ObjectAssign(t, [collapsed |-> FALSE])
  ELSE IF Has(o.expanded, Prop(t, "id"))
  THEN ObjectAssign(t, [collapsed |-> ~o.expanded[t.id]])
  ELSE t

\* part_002:329-341: the function mapped over the threads by the second pass.
ExpansionOf(o, t) ==
  IF Has(o.expanded, Prop(t, "id"))
  THEN ObjectAssign(t, [collapsed |-> ~o.expanded[t.id]])
  ELSE LET hasUnfilteredChildren == Has(o, "filterFn") /\ hasVisibleChildren(t)
       IN ObjectAssign(t, [collapsed |-> t.collapsed /\ ~hasUnfilteredChildren])

RECURSIVE MapExpansion(_, _)
\* part_002:150-156 applied as in 329-342.
MapExpansion(o, t) ==
  ObjectAssign(ExpansionOf(o, t),
    [children |-> [j \in 1..Len(t.children) |-> MapExpansion(o, t.children[j])]])

\* Lines 345-347 left out: no top-level thread is removed.
PruneThreads_KeepAll(t) == t

\* part_002:345-347
PruneThreads(t) ==
  [t EXCEPT !.children =
     SelectSeq(@, LAMBDA child : child.visible \/ hasVisibleChildren(child))]

\* part_002:351-353
FilterThreads(o, t) ==
  IF Has(o, "threadFilterFn")
  THEN [t EXCEPT !.children =
          SelectSeq(@, LAMBDA child : child.id \in o.threadFilterFn)]
  ELSE t

\* part_002:255-264 and the comparators a caller passes: a[field] < b[field],
\* which is false when either side is undefined.
Less(compareFn, a, b) ==
  IF compareFn = "id"
  THEN a.id # Undefined /\ b.id # Undefined /\ a.id < b.id
  ELSE a.created < b.created

\* part_002:166-183: the comparator handed to Array.prototype.sort.
Compare(compareFn, as, a, b) ==
  IF a.annotation = Undefined \/ b.annotation = Undefined
  THEN IF a.annotation = Undefined /\ b.annotation = Undefined THEN 0
       ELSE IF a.annotation = Undefined THEN -1 ELSE 1
  ELSE IF Less(compareFn, as[a.annotation], as[b.annotation]) THEN -1
  ELSE IF Less(compareFn, as[b.annotation], as[a.annotation]) THEN 1
  ELSE 0

RECURSIVE Insert(_, _, _, _)
\* x put into the sorted sequence s behind every element that does not
\* compare greater than it.
Insert(compareFn, as, s, x) ==
  IF s = <<>> THEN <<x>>
  ELSE IF Compare(compareFn, as, Last(s), x) <= 0 THEN Append(s, x)
  ELSE Append(Insert(compareFn, as, Front(s), x), Last(s))

RECURSIVE sort(_, _, _)
\* part_002:165-184.  Array.prototype.sort is stable: an insertion sort.
sort(ts, compareFn, as) ==
  IF ts = <<>> THEN <<>>
  ELSE Insert(compareFn, as, sort(Front(ts), compareFn, as), Last(ts))

RECURSIVE sortThread(_, _, _, _)
\* part_002:190-198
sortThread(t, compareFn, replyCompareFn, as) ==
  LET children == [j \in 1..Len(t.children) |->
                     sortThread(t.children[j], replyCompareFn, replyCompareFn, as)]
  IN ObjectAssign(t, [children |-> sort(children, compareFn, as)])

\* Lines 211-213 counting the direct children only.
SumReplies_DirectOnly(children) == Len(children)

RECURSIVE SumReplies(_)
\* part_002:211-213: the reduce over the counted children.
SumReplies(children) ==
  IF children = <<>> THEN 0
  ELSE SumReplies(Front(children)) + 1 + Last(children).replyCount

RECURSIVE countRepliesAndDepth(_, _)
\* part_002:204-215
countRepliesAndDepth(t, depth) ==
  LET children == [j \in 1..Len(t.children) |->
                     countRepliesAndDepth(t.children[j], depth + 1)]
  IN ObjectAssign(t,
       [children |-> children, depth |-> depth,
        replyCount |-> SumReplies(children)])

\* part_002:359: the depth given to the root.
RootDepth == -1

\* part_002:285-361: the value buildThread returns for the merged options o,
\* the annotations as and the thread t that threadAnnotations returned.
Build(o, as, t) ==
  LET selected == SelectThreads(o, t)
      shown == MapVisibility(o, as, selected)
      expanded == MapExpansion(o, shown)
      pruned == PruneThreads(expanded)
      filtered == FilterThreads(o, pruned)
      sorted == sortThread(filtered, o.sortCompareFn, o.replySortCompareFn, as)
  IN countRepliesAndDepth(sorted, RootDepth)

\* part_002:285-361
BuildRest ==
  /\ pc = "build"
  /\ thread' = Build(opts, annotations, root)
  /\ pc' = "done"
  /\ UNCHANGED <<props, menu>>
  /\ UNCHANGED <<annotations, optsArg, DEFAULT_THREAD_STATE, defaultOpts, opts,
                 threads, keys, next, stack, root, calls, first, limit>>

---------------------------------------------------------------------------
(* UserMenu, part_000:15-58.  `props` holds what the component reads: the    *)
(* value serviceConfig(settings) returns (serviceConfigured FALSE: null),    *)
(* inSidebar, what isThirdPartyUser returns for the user, and the onLogout   *)
(* handler.  `menu` is the sequence of MenuItem elements rendered.           *)

\* The features a service configuration can declare.
Features == {"onProfileRequestProvided", "onLogoutRequestProvided"}

\* The handlers a parent can pass as onLogout.
LogoutHandlers == {"onLogout1", "onLogout2"}

\* The props the component can be rendered with.
UserMenuProps ==
  {[serviceConfigured |-> c, service |-> f, inSidebar |-> b,
    isThirdParty |-> t, onLogout |-> h] :
     c \in BOOLEAN, f \in UNION {[D -> BOOLEAN] : D \in SUBSET Features},
     b \in BOOLEAN, t \in BOOLEAN, h \in LogoutHandlers}

\* part_000:19
serviceSupports(p, feature) ==
  ~p.serviceConfigured \/ (Has(p.service, feature) /\ p.service[feature])

\* part_000:21-22
isSelectableProfile(p) ==
  serviceSupports(p, "onProfileRequestProvided") \/ ~p.inSidebar

\* Lines 23-24 asking for the feature of lines 21-22.
logoutEnabled_ProfileFeature(p) ==
  serviceSupports(p, "onProfileRequestProvided") \/ ~p.inSidebar

\* part_000:23-24
logoutEnabled(p) ==
  serviceSupports(p, "onLogoutRequestProvided") \/ ~p.inSidebar

\* A <MenuItem> element; a prop that is not passed is "undefined".
MenuItem(label, onClick, href, isDisabled) ==
  [label |-> label, onClick |-> onClick, href |-> href, isDisabled |-> isDisabled]

\* part_000:30-57: the MenuItem elements of the element returned.
Render(p) ==
  <<IF isSelectableProfile(p)
    THEN MenuItem("displayName", "onProfileSelected", "user", FALSE)
    ELSE MenuItem("displayName", "undefined", "undefined", TRUE)>>
    \o (IF ~p.isThirdParty
        THEN <<MenuItem("Account settings", "undefined", "account.settings", FALSE)>>
        ELSE <<>>)
    \o (IF logoutEnabled(p)
        THEN <<MenuItem("Log out", p.onLogout, "undefined", FALSE)>>
        ELSE <<>>)

\* The component is mounted with some props and has not rendered yet.
InitUserMenu ==
  /\ annotations = <<>>
  /\ optsArg = EmptyObject
  /\ DEFAULT_THREAD_STATE = InitialThreadState
  /\ defaultOpts = InitialDefaultOpts
  /\ pc = "args"
  /\ opts = EmptyObject
  /\ threads = EmptyObject
  /\ keys = <<>>
  /\ next = 1
  /\ stack = <<>>
  /\ root = EmptyObject
  /\ thread = EmptyObject
  /\ calls = 0
  /\ first = <<>>
  /\ limit = 0
  /\ props \in {p \in UserMenuProps :
                  ~p.serviceConfigured => p.service = EmptyObject}
  /\ menu = <<>>

\* part_000:15-58: UserMenu(props) renders.
UserMenu ==
  /\ props # EmptyObject
  /\ menu = <<>>
  /\ menu' = Render(props)
  /\ UNCHANGED <<annotations, optsArg, DEFAULT_THREAD_STATE, defaultOpts, pc,
                 opts, threads, keys, next, stack, root, thread, calls, first,
                 limit, props>>

---------------------------------------------------------------------------
(* Specifications *)

\* One call of buildThread.
Next ==
  \/ AddAnnotation
  \/ SetOption
  \/ buildThread
  \/ IndexAnnotations
  \/ LinkNext
  \/ SetParentIDReturn
  \/ SetParentIDPlaceholder
  \/ SetParentIDStartWalk
  \/ SetParentIDAbort
  \/ SetParentIDWalk
  \/ SetParentIDLink
  \/ CollectRoots
  \/ BuildRest

Spec == Init /\ [][Next]_vars

\* Several calls in a row, each with arguments of its own.
NextCalls == Next \/ Return \/ CallAgain

SpecCalls == InitCalls /\ [][NextCalls]_vars

\* One call with default options on a list of saved and new annotations.
NextDrafts ==
  \/ AddDraft
  \/ buildThread
  \/ IndexAnnotations
  \/ LinkNext
  \/ SetParentIDReturn
  \/ SetParentIDPlaceholder
  \/ SetParentIDStartWalk
  \/ SetParentIDAbort
  \/ SetParentIDWalk
  \/ SetParentIDLink
  \/ CollectRoots
  \/ BuildRest

SpecDrafts == Init /\ [][NextDrafts]_vars

\* A call with default options and a second call with the same annotations
\* in another order.
NextOrders ==
  \/ AddReply
  \/ buildThread
  \/ IndexAnnotations
  \/ LinkNext
  \/ SetParentIDReturn
  \/ SetParentIDPlaceholder
  \/ SetParentIDStartWalk
  \/ SetParentIDAbort
  \/ SetParentIDWalk
  \/ SetParentIDLink
  \/ CollectRoots
  \/ BuildRest
  \/ Return
  \/ CallReordered

SpecOrders == Init /\ [][NextOrders]_vars

\* One render of UserMenu.
SpecUserMenu == InitUserMenu /\ [][UserMenu]_vars

---------------------------------------------------------------------------
(* Reading a returned tree *)

RECURSIVE Paths(_)
\* The nodes of the tree t, each named by the child indexes that lead to it
\* from t.
Paths(t) ==
  {<<>>} \cup UNION {{<<j>> \o p : p \in Paths(t.children[j])} :
                       j \in 1..Len(t.children)}

RECURSIVE NodeAt(_, _)
NodeAt(t, p) == IF p = <<>> THEN t ELSE NodeAt(t.children[p[1]], Tail(p))

\* The number of nodes below t.
NumDescendants(t) == Cardinality(Paths(t)) - 1

\* The caller passed no option: the defaults apply.
DefaultOptions == optsArg = EmptyObject

\* The persistent ids of the annotations passed are pairwise distinct.
DistinctIDs ==
  \A j, k \in 1..Len(annotations) :
    id(annotations[j]) = id(annotations[k]) => j = k

RECURSIVE Ancestor(_, _)
\* The thread id n parent links above tid (Undefined when the links end
\* before).
Ancestor(tid, n) ==
  IF n = 0 THEN tid
  ELSE LET below == Ancestor(tid, n - 1)
       IN IF below = Undefined THEN Undefined ELSE threads[below].parent

---------------------------------------------------------------------------
(* Claims *)

\* C1: for every list of annotations buildThread terminates and returns a
\* root thread.  Termination, as a property of states: no call of setParentID
\* makes more turns of its while loop than there are threads (a walk that
\* does is at some thread for the second time, with the same map, and so
\* never leaves the loop); and what is returned is a root, with no annotation
\* and depth -1.
C1_Terminates ==
  /\ \A f \in 1..Len(stack) : stack[f].walked <= Cardinality(DOMAIN threads)
  /\ pc = "done" => thread.annotation = Undefined /\ thread.depth = RootDepth

\* C2: at every step of parent linking the parent relation over the threads
\* is acyclic: following parent links upward from a thread never reaches
\* that thread again.
C2_ParentsAcyclic ==
  \A tid \in DOMAIN threads :
    \A n \in 1..Cardinality(DOMAIN threads) : Ancestor(tid, n) # tid

\* C3: with default options and pairwise distinct persistent ids, every
\* annotation passed is the annotation of exactly one node of the returned
\* tree.
C3_EveryAnnotationOnce ==
  (pc = "done" /\ DefaultOptions /\ DistinctIDs) =>
    \A j \in 1..Len(annotations) :
      Cardinality({p \in Paths(thread) : NodeAt(thread, p).annotation = j}) = 1

\* C4: once the parent of a thread is set, no later step of the construction
\* changes it.
C4_ParentNeverOverwritten ==
  [][\A tid \in DOMAIN threads :
       (threads[tid].parent # Undefined /\ pc' # "args") =>
         /\ tid \in DOMAIN threads'
         /\ threads'[tid].parent = threads[tid].parent]_vars

\* C4's witness: two annotations with the same id ask for different parents;
\* the construction is over and the thread has the parent the earlier one
\* asked for.
C4_Witness ==
  /\ pc = "done"
  /\ \E j, k \in 1..Len(annotations) :
       /\ j < k
       /\ id(annotations[j]) = id(annotations[k])
       /\ annotations[j].references # <<>>
       /\ annotations[k].references # <<>>
       /\ Last(annotations[j].references) # Last(annotations[k].references)
       /\ Last(annotations[j].references) # id(annotations[j])
       /\ threads[id(annotations[j])].parent = Last(annotations[j].references)

\* C5: no step of a call changes the annotation array, its elements, the
\* options object or the module-level default records.
C5_InputsUnchanged ==
  [][pc' # "args" =>
       /\ annotations' = annotations
       /\ optsArg' = optsArg
       /\ DEFAULT_THREAD_STATE' = DEFAULT_THREAD_STATE
       /\ defaultOpts' = defaultOpts]_vars

\* C5's witness: a call with annotations and options has returned, after
\* making a placeholder and linking threads.
C5_Witness ==
  /\ pc = "done"
  /\ annotations # <<>>
  /\ optsArg # EmptyObject
  /\ \E tid \in DOMAIN threads :
       threads[tid].annotation = Undefined /\ threads[tid].children # <<>>

\* C6: a call that is passed the arguments of the first call returns what
\* the first call returned, whatever calls were made in between.
C6_SameArgsSameResult ==
  (pc = "done" /\ calls >= 1 /\ annotations = first.annotations
     /\ optsArg = first.opts) =>
    thread = first.result

\* C6's witness: the third call has returned; it was passed the first call's
\* arguments, with an annotation among them, and the call between the two had
\* arguments of its own.
C6_Witness ==
  /\ pc = "done"
  /\ calls = 2
  /\ annotations = first.annotations
  /\ optsArg = first.opts
  /\ annotations # <<>>
  /\ limit < MaxCallWeight

\* C7: in the returned tree the depth of a node is the number of edges from
\* the root to it minus one, and its replyCount is the number of nodes below
\* it.
C7_DepthAndReplyCount ==
  pc = "done" =>
    \A p \in Paths(thread) :
      /\ NodeAt(thread, p).depth = Len(p) - 1
      /\ NodeAt(thread, p).replyCount = NumDescendants(NodeAt(thread, p))

\* C7's witness: a returned tree with a node two levels below a top-level
\* thread.
C7_Witness ==
  /\ pc = "done"
  /\ \E p \in Paths(thread) : Len(p) = 3

RECURSIVE IsChain(_, _)
\* Below t there is exactly the chain of the threads named ids: placeholders,
\* except the last, which holds the only annotation.
IsChain(t, ids) ==
  IF ids = <<>> THEN t.children = <<>>
  ELSE /\ Len(t.children) = 1
       /\ t.children[1].id = ids[1]
       /\ t.children[1].annotation = (IF Len(ids) = 1 THEN 1 ELSE Undefined)
       /\ IsChain(t.children[1], Tail(ids))

\* The case of C8: one annotation, whose references are pairwise distinct
\* and do not name it; default options.
OneReplyToMissing ==
  /\ Len(annotations) = 1
  /\ DefaultOptions
  /\ LET r == annotations[1].references
     IN /\ Len(r) >= 1
        /\ \A j, k \in 1..Len(r) : r[j] = r[k] => j = k
        /\ id(annotations[1]) \notin Range(r)

\* C8: for one annotation X with references r1..rk, pairwise distinct and
\* none of them X's id, the returned tree is the chain
\* root > r1 > ... > rk > X, with r1..rk placeholders.
C8_PlaceholderChain ==
  (pc = "done" /\ OneReplyToMissing) =>
    IsChain(thread, annotations[1].references \o <<id(annotations[1])>>)

\* C8's witness: such a call, with at least two references, has returned.
C8_Witness ==
  /\ pc = "done"
  /\ OneReplyToMissing
  /\ Len(annotations[1].references) >= 2

\* What C9 says of a node n of the returned tree.
ShouldBeVisible(n) ==
  /\ n.annotation # Undefined
  /\ \/ Has(optsArg, "forceVisible") /\ n.id \in Range(optsArg.forceVisible)
     \/ ~Has(optsArg, "filterFn")
     \/ n.id \in optsArg.filterFn

\* C9: a node of the returned tree is visible exactly when it has an
\* annotation and its id is in forceVisible, or no filterFn was given, or
\* filterFn accepts the annotation.
C9_VisibleFlag ==
  pc = "done" =>
    \A p \in Paths(thread) :
      NodeAt(thread, p).visible <=> ShouldBeVisible(NodeAt(thread, p))

\* C9's witness: a node of a returned tree is visible though filterFn rejects
\* its annotation, because forceVisible names it.
C9_Witness ==
  /\ pc = "done"
  /\ Has(optsArg, "filterFn")
  /\ Has(optsArg, "forceVisible")
  /\ \E p \in Paths(thread) :
       LET n == NodeAt(thread, p)
       IN /\ n.visible
          /\ n.id \notin optsArg.filterFn
          /\ n.id \in Range(optsArg.forceVisible)

\* A node below t is visible.
HasVisibleDescendant(t) ==
  \E p \in Paths(t) : p # <<>> /\ NodeAt(t, p).visible

\* C10: every child of the returned root is visible or has a visible
\* descendant, and every node below the root has all the children that
\* parent linking gave it, visible or not.
C10_TopLevelPruned ==
  pc = "done" =>
    /\ \A j \in 1..Len(thread.children) :
         thread.children[j].visible \/ HasVisibleDescendant(thread.children[j])
    /\ \A p \in Paths(thread) :
         p # <<>> =>
           LET n == NodeAt(thread, p)
           IN /\ Len(n.children) = Len(threads[n.id].children)
              /\ {n.children[j].id : j \in 1..Len(n.children)}
                   = Range(threads[n.id].children)

\* C10's witness: a top-level thread that parent linking gave a reply is
\* absent from the returned root, though no selection and no threadFilterFn
\* was passed: the pruning removed it.
C10_Witness ==
  /\ pc = "done"
  /\ ~Has(optsArg, "threadFilterFn")
  /\ opts.selected = <<>>
  /\ \E j \in 1..Len(root.children) :
       /\ root.children[j].children # <<>>
       /\ \A k \in 1..Len(thread.children) :
            thread.children[k].id # root.children[j].id

\* The ids of the children of the thread t.
ChildIDs(t) == {t.children[j].id : j \in 1..Len(t.children)}

\* The parent-child links below the thread t, as pairs of ids.
Links(t) ==
  {<<NodeAt(t, Front(p)).id, NodeAt(t, p).id>> : p \in {q \in Paths(t) : q # <<>>}}

\* The links below each child of the thread t, by the child's id.
LinksBelow(t, tid) ==
  UNION {IF t.children[j].id = tid THEN Links(t.children[j]) ELSE {} :
           j \in 1..Len(t.children)}

\* C11: when selected is non-empty, every child of the returned root is a
\* top-level thread whose id is an entry of selected, and it has below it
\* every link it had when threadAnnotations returned; when selected is empty
\* (and no filter is passed that could remove a thread later) every
\* top-level thread is a child of the returned root.
C11_Selection ==
  pc = "done" =>
    /\ Len(opts.selected) > 0 =>
         \A j \in 1..Len(thread.children) :
           LET child == thread.children[j]
           IN /\ child.id \in Range(opts.selected)
              /\ child.id \in ChildIDs(root)
              /\ threads[child.id].parent = Undefined
              /\ Links(child) = LinksBelow(root, child.id)
    /\ (Len(opts.selected) = 0 /\ ~Has(optsArg, "filterFn")
          /\ ~Has(optsArg, "threadFilterFn")) =>
         ChildIDs(thread) = ChildIDs(root)

\* C11's witness: a selection was passed; of two top-level threads the
\* returned root has the selected one and not the other.
C11_Witness ==
  /\ pc = "done"
  /\ Has(optsArg, "selected")
  /\ Len(root.children) = 2
  /\ Len(thread.children) = 1
  /\ thread.children[1].id \in Range(optsArg.selected)
  /\ \E j \in 1..2 : root.children[j].id \notin Range(optsArg.selected)

\* The children of the thread t are in the order C12 states for the
\* comparator compareFn.
Ordered(t, compareFn) ==
  \A j, k \in 1..Len(t.children) :
    j < k =>
      LET x == t.children[j]
          y == t.children[k]
      IN /\ ~(x.annotation # Undefined /\ y.annotation = Undefined)
         /\ (x.annotation # Undefined /\ y.annotation # Undefined) =>
              ~Less(compareFn, annotations[y.annotation], annotations[x.annotation])

ShouldHaveHighlightState(n) ==
  IF Len(opts.highlighted) > 0 /\ n.annotation # Undefined
  THEN IF n.id \in Range(opts.highlighted) THEN "highlight" ELSE "dim"
  ELSE "undefined"

\* C13: in the returned tree a node with an annotation has highlightState
\* 'highlight' or 'dim', as its id is or is not in highlighted, when
\* highlighted is non-empty; every other node, and every node when
\* highlighted is empty, has no highlight state.
C13_HighlightState ==
  pc = "done" =>
    \A p \in Paths(thread) :
      NodeAt(thread, p).highlightState = ShouldHaveHighlightState(NodeAt(thread, p))

\* What C14 says of the node at path p of the returned tree.
ShouldBeCollapsed(p) ==
  LET n == NodeAt(thread, p)
  IN IF p # <<>> /\ Has(opts.expanded, n.id) THEN ~opts.expanded[n.id]
     ELSE IF Has(optsArg, "filterFn") /\ HasVisibleDescendant(n) THEN FALSE
     ELSE Len(p) = 1

\* C14: in the returned tree a node is collapsed as `expanded` says when it
\* has an entry for the node's id; otherwise it is not collapsed when
\* filterFn was given and a node below it is visible; otherwise it is
\* collapsed exactly when it is a top-level thread.
C14_CollapsedFlag ==
  pc = "done" =>
    \A p \in Paths(thread) : NodeAt(thread, p).collapsed <=> ShouldBeCollapsed(p)

\* C14's witness: a thread of a returned tree is collapsed because `expanded`
\* says so, though filterFn was given and a reply below it is visible.
C14_Witness ==
  /\ pc = "done"
  /\ Has(optsArg, "filterFn")
  /\ Has(optsArg, "expanded")
  /\ \E p \in Paths(thread) :
       /\ p # <<>>
       /\ Has(optsArg.expanded, NodeAt(thread, p).id)
       /\ HasVisibleDescendant(NodeAt(thread, p))
       /\ NodeAt(thread, p).collapsed

\* C15: in the returned tree the totalChildren of every node is the number
\* of direct children the node had when parent linking was over: for the
\* root the number of top-level threads, for every other node the number of
\* threads linked below it.
C15_TotalChildren ==
  pc = "done" =>
    \A p \in Paths(thread) :
      NodeAt(thread, p).totalChildren =
        (IF p = <<>> THEN Len(root.children)
         ELSE Len(threads[NodeAt(thread, p).id].children))

\* The 'Log out' items among the items rendered.
LogoutItems == {j \in 1..Len(menu) : menu[j].label = "Log out"}

\* C16: UserMenu renders the 'Log out' item exactly when no service is
\* configured, or the service has onLogoutRequestProvided set, or the menu
\* is not in the sidebar; the click handler of the item is the onLogout prop.
C16_LogoutItem ==
  menu # <<>> =>
    /\ LogoutItems # {} <=>
         \/ ~props.serviceConfigured
         \/ Has(props.service, "onLogoutRequestProvided")
              /\ props.service.onLogoutRequestProvided
         \/ ~props.inSidebar
    /\ \A j \in LogoutItems : menu[j].onClick = props.onLogout

\* C16's witness: rendered in the sidebar for a service that provides the
\* profile request but no logout request, the menu has no 'Log out' item.
C16_Witness ==
  /\ menu # <<>>
  /\ props.serviceConfigured
  /\ props.inSidebar
  /\ Has(props.service, "onProfileRequestProvided")
  /\ props.service.onProfileRequestProvided
  /\ LogoutItems = {}

\* The nearest ancestor that the annotation with persistent id tid names.
NearestAncestor(tid) ==
  Last(annotations[CHOOSE j \in 1..Len(annotations) :
                     id(annotations[j]) = tid].references)

RECURSIVE NamedAncestor(_, _)
\* The id reached from tid by n steps from an annotation to the nearest
\* ancestor it names.
NamedAncestor(tid, n) ==
  IF n = 0 THEN tid ELSE NearestAncestor(NamedAncestor(tid, n - 1))

\* The case of C17: two or more annotations with distinct ids, each naming
\* another of them as its nearest ancestor, so that the names form one cycle
\* through all of them.
OneCycle ==
  LET k == Len(annotations)
      ids == {id(annotations[j]) : j \in 1..k}
  IN /\ k >= 2
     /\ DistinctIDs
     /\ \A j \in 1..k :
          /\ annotations[j].references # <<>>
          /\ Last(annotations[j].references) \in ids
     /\ {NamedAncestor(id(annotations[1]), n) : n \in 0..(k - 1)} = ids
     /\ NamedAncestor(id(annotations[1]), k) = id(annotations[1])

\* C17: for annotations whose references form one cycle, parent linking
\* leaves without parent exactly the member that comes last in the list and
\* gives every other member the parent it names: the last member is the only
\* top-level thread and the others are a chain of replies below it.
C17_CycleBrokenAtLast ==
  (pc = "done" /\ OneCycle) =>
    LET k == Len(annotations)
    IN /\ threads[id(annotations[k])].parent = Undefined
       /\ \A j \in 1..(k - 1) :
            threads[id(annotations[j])].parent = Last(annotations[j].references)
       /\ ChildIDs(root) = {id(annotations[k])}
       /\ Cardinality(Paths(root)) = k + 1
       /\ \E p \in Paths(root) : Len(p) = k

\* C17's witness: a call with a cycle of three annotations has returned.
C17_Witness ==
  /\ pc = "done"
  /\ OneCycle
  /\ Len(annotations) = 3

\* The parent each references list names for a thread, as pairs
\* <<child id, parent id>>: the last reference for the annotation, and for
\* every reference the one before it.
NamedParents ==
  UNION {LET r == annotations[j].references
         IN {<<id(annotations[j]), r[n]>> : n \in {Len(r)} \ {0}}
              \cup {<<r[n + 1], r[n]>> : n \in 1..(Len(r) - 1)} :
           j \in 1..Len(annotations)}

RECURSIVE NamedAbove(_, _)
\* The ids that the references name above those of S, in up to n steps.
NamedAbove(S, n) ==
  IF n = 0 THEN S
  ELSE NamedAbove(S \cup {e[2] : e \in {x \in NamedParents : x[1] \in S}}, n - 1)

\* The case of C18: distinct ids and references that name no id above itself
\* and no two parents for one id.
CycleFreeReferences ==
  /\ DistinctIDs
  /\ \A e \in NamedParents : e[1] \notin NamedAbove({e[2]}, Cardinality(NamedParents))
  /\ \A e, f \in NamedParents : e[1] = f[1] => e[2] = f[2]

\* The threads of the tree t, each with the id of its parent (Undefined for
\* a top-level thread).
TreeLinks(t) ==
  {<<IF Len(p) = 1 THEN Undefined ELSE NodeAt(t, Front(p)).id, NodeAt(t, p).id>> :
     p \in {q \in Paths(t) : q # <<>>}}

\* C18: for annotations with distinct ids and cycle-free references, a call
\* on any ordering of the list produces the threads and the parent links of
\* the call on the list itself.
C18_OrderIndependent ==
  (/\ pc = "done"
   /\ calls = 1
   /\ annotations \in Orderings(first.annotations)
   /\ optsArg = first.opts
   /\ CycleFreeReferences) =>
    TreeLinks(thread) = TreeLinks(first.result)

====
